---- MODULE Spec2Model ----
(***************************************************************************)
(* Model of app/jwt_manager.py (JWTManager: issue and one-time admission   *)
(* of signed tokens, lazy cleanup of the used-token cache) and of the      *)
(* HTTP endpoint of app/main.py that guards POST /DevOps.                  *)
(*                                                                         *)
(* Time is counted in ticks, TicksPerSec ticks to the second: time.time()  *)
(* and datetime.utcnow() read the clock `now` at tick precision, while the *)
(* iat/exp claims of an encoded token are whole seconds.                   *)
(***************************************************************************)
EXTENDS Integers, Sequences, FiniteSets, TLC

\* ---------------------------------------------------------------- bounds
TicksPerSec == 2
\* seconds the clock may run past one cleanup interval
MaxSecs == 1
\* number of tokens ever encoded
MaxTokens == 2
\* number of threads calling validate_jwt on the shared manager
NThreads == 2
\* number of HTTP requests answered
MaxRequests == 2

\* ------------------------------------------------------ program constants
cleanup_interval == 60
secret_key == "secret1"
OtherSecret == "secret2"
Secrets == {secret_key, OtherSecret}
\* values of token_expiry_seconds the manager is constructed with
TTLs == {1, cleanup_interval + 1}
MaxClock == TicksPerSec * (cleanup_interval + MaxSecs)

\* ------------------------------------------------------------ dictionaries
EmptyDict == [k \in {} |-> 0]

\* dict.update(other): keys of other win
Update(d, e) ==
  [k \in (DOMAIN d) \cup (DOMAIN e) |-> IF k \in DOMAIN e THEN e[k] ELSE d[k]]

\* payloads a caller hands to generate_jwt (None is the empty dict)
CallerPayloads == {EmptyDict, [data |-> "test"]}

\* ------------------------------------------------------------ token codec
\* a datetime claim is encoded as whole seconds since the epoch
ToUnix(dt) == dt \div TicksPerSec

\* the claims whose datetime value jwt.encode converts to a number
EncodeClaims(payload) ==
  [k \in DOMAIN payload |->
     IF k \in {"iat", "exp"} THEN ToUnix(payload[k]) ELSE payload[k]]

\* HS256 over the encoded claims: determined by the claims and the key
Mac(claims, key) == [msg |-> claims, key |-> key]

\* jwt.encode(payload, key, algorithm='HS256')
Encode(payload, key) ==
  [wellformed |-> TRUE,
   payload    |-> EncodeClaims(payload),
   sig        |-> Mac(EncodeClaims(payload), key)]

\* the string "invalid.jwt.token": not three decodable segments
MalformedToken ==
  [wellformed |-> FALSE, payload |-> EmptyDict, sig |-> Mac(EmptyDict, "")]

\* mutant of SignatureOk: the signature is not compared
SignatureOkUnchecked(token, key) == TRUE

\* the signature segment is the MAC of the claims under the key
SignatureOk(token, key) == token.sig = Mac(token.payload, key)

\* mutant of SignatureExpired: a token is still good at its exp second
SignatureExpiredStrict(exp, t) == exp * TicksPerSec < t

\* the exp claim (whole seconds) against the clock reading t
SignatureExpired(exp, t) == exp * TicksPerSec <= t

\* mutant of Decode: the exp claim is read before the signature is verified
DecodeExpiryFirst(token, key, t) ==
  IF ~token.wellformed THEN [err |-> "DecodeError", payload |-> EmptyDict]
  ELSE IF "exp" \in DOMAIN token.payload /\ SignatureExpired(token.payload["exp"], t)
       THEN [err |-> "ExpiredSignatureError", payload |-> EmptyDict]
  ELSE IF ~SignatureOk(token, key)
       THEN [err |-> "InvalidSignatureError", payload |-> EmptyDict]
  ELSE [err |-> "none", payload |-> token.payload]

\* jwt.decode(token, key, algorithms=['HS256']) at clock reading t:
\* the exception it raises, or "none" and the claims; no audience is passed,
\* so a token that carries an aud claim is refused
Decode(token, key, t) ==
  IF ~token.wellformed THEN [err |-> "DecodeError", payload |-> EmptyDict]
  ELSE IF ~SignatureOk(token, key)
       THEN [err |-> "InvalidSignatureError", payload |-> EmptyDict]
  ELSE IF "iat" \in DOMAIN token.payload /\ token.payload["iat"] * TicksPerSec > t
       THEN [err |-> "ImmatureSignatureError", payload |-> EmptyDict]
  ELSE IF "exp" \in DOMAIN token.payload /\ SignatureExpired(token.payload["exp"], t)
       THEN [err |-> "ExpiredSignatureError", payload |-> EmptyDict]
  ELSE IF "aud" \in DOMAIN token.payload
       THEN [err |-> "InvalidAudienceError", payload |-> EmptyDict]
  ELSE [err |-> "none", payload |-> token.payload]

\* ----------------------------------------------------------------- state
VARIABLES
  now,                   \* the system clock, in ticks
  token_expiry_seconds,  \* self.token_expiry_seconds
  used_tokens,           \* self._used_tokens: jti -> time.time() of admission
  last_cleanup,          \* self._last_cleanup
  tokens,                \* encoded tokens handed out so far
  next_jti,              \* number of jti values drawn so far
  last,                  \* the validate_jwt call just made, if any
  admissions,            \* jti -> number of successful validate_jwt calls
  nremoved,              \* number of entries removed by cleanups so far
  threads,               \* the validate_jwt calls in progress, one per thread
  http,                  \* the requests the HTTP layer has answered, in order
  issued                 \* the generate_jwt call made last, if any

vars == <<now, token_expiry_seconds, used_tokens, last_cleanup, tokens,
          next_jti, last, admissions, nremoved, threads, http, issued>>

\* the state of the manager
manager == <<token_expiry_seconds, used_tokens, last_cleanup>>

\* details of the HTTPException raised by validate_jwt; "ok" is a return
DetailMissingJti == "Invalid JWT: missing unique identifier"
DetailUsed       == "JWT token already used"
DetailExpired    == "JWT token expired"
DetailInvalid    == "Invalid JWT token"

\* the rejection kind a detail stands for
Kind(detail) ==
  CASE detail = "ok"             -> "ok"
    [] detail = DetailExpired    -> "TokenExpired"
    [] detail = DetailUsed       -> "TokenAlreadyUsed"
    [] OTHER                     -> "InvalidToken"

NoCall ==
  [op |-> "none", token |-> MalformedToken, detail |-> "none",
   payload |-> EmptyDict]

\* no generate_jwt call yet
NoIssue ==
  [op |-> "none", arg |-> EmptyDict, payload |-> EmptyDict,
   token |-> MalformedToken, t1 |-> 0, at |-> 0]

Threads == 1..NThreads

\* a thread that is not inside validate_jwt
Idle ==
  [pc |-> "idle", token |-> MalformedToken, payload |-> EmptyDict,
   current_time |-> 0, expired_tokens |-> {}, result |-> "none"]

Init ==
  /\ now = 0
  /\ token_expiry_seconds \in TTLs
  /\ used_tokens = EmptyDict
  /\ last_cleanup = now
  /\ tokens = {}
  /\ next_jti = 0
  /\ last = NoCall
  /\ admissions = EmptyDict
  /\ nremoved = 0
  /\ threads = [th \in Threads |-> Idle]
  /\ http = <<>>
  /\ issued = NoIssue

\* --------------------------------------------------------- JWTManager
\* generate_jwt: the clock is read at t1 for iat and at t2 for exp
\* payload.update({'jti': ..., 'iat': ..., 'exp': ...}): the dict the caller
\* passed, as generate_jwt leaves it
updated_payload(payload, jti, t1, t2, ttl) ==
  Update(payload, [jti |-> jti, iat |-> t1, exp |-> t2 + ttl * TicksPerSec])

generate_jwt(payload, jti, t1, t2, ttl, key) ==
  Encode(updated_payload(payload, jti, t1, t2, ttl), key)

\* payload.get('jti') is truthy
HasJti(payload) == "jti" \in DOMAIN payload

\* mutant of AlreadyUsed: the cache is not consulted
AlreadyUsedNever(jti, used) == FALSE

\* jti in self._used_tokens
AlreadyUsed(jti, used) == jti \in DOMAIN used

\* mutant of MarkUsed: the token is not recorded
MarkUsedNot(used, jti, t) == used

\* self._used_tokens[jti] = time.time()
MarkUsed(used, jti, t) == Update(used, [j \in {jti} |-> t])

\* mutant of ErrorDetail: InvalidTokenError, the base class of
\* ExpiredSignatureError, is caught first
ErrorDetailShadowed(err) == DetailInvalid

\* the except clauses of validate_jwt: the detail for a jwt.decode error
ErrorDetail(err) ==
  IF err = "ExpiredSignatureError" THEN DetailExpired ELSE DetailInvalid

\* mutant of CleanupDue: the sweep runs at every call
CleanupDueAlways(current_time, lc) == TRUE

\* mutant of CleanupDue: the sweep waits for more than the interval
CleanupDueLate(current_time, lc) ==
  current_time - lc > cleanup_interval * TicksPerSec

\* the interval test of _cleanup_expired_tokens: the sweep runs
CleanupDue(current_time, lc) ==
  ~(current_time - lc < cleanup_interval * TicksPerSec)

\* mutant of ExpiredTokens: the threshold forgets the expiry time
ExpiredTokensNoTtl(used, current_time, ttl) ==
  {jti \in DOMAIN used : used[jti] < current_time}

\* mutant of ExpiredTokens: an entry exactly ttl old is collected too
ExpiredTokensInclusive(used, current_time, ttl) ==
  {jti \in DOMAIN used : used[jti] <= current_time - ttl * TicksPerSec}

\* the entries _cleanup_expired_tokens collects for deletion
ExpiredTokens(used, current_time, ttl) ==
  {jti \in DOMAIN used : used[jti] < current_time - ttl * TicksPerSec}

\* mutant of cleanup_expired_tokens: the time of the sweep is recorded only
\* when an entry was removed
cleanup_expired_tokens_LazyStamp(used, lc, current_time, ttl) ==
  IF ~CleanupDue(current_time, lc)
  THEN [used |-> used, last_cleanup |-> lc, removed |-> {}]
  ELSE LET expired_tokens == ExpiredTokens(used, current_time, ttl)
       IN  [used         |-> [j \in (DOMAIN used) \ expired_tokens |-> used[j]],
            last_cleanup |-> IF expired_tokens = {} THEN lc ELSE current_time,
            removed      |-> expired_tokens]

\* _cleanup_expired_tokens at clock reading current_time
cleanup_expired_tokens(used, lc, current_time, ttl) ==
  IF ~CleanupDue(current_time, lc)
  THEN [used |-> used, last_cleanup |-> lc, removed |-> {}]
  ELSE LET expired_tokens == ExpiredTokens(used, current_time, ttl)
       IN  [used         |-> [j \in (DOMAIN used) \ expired_tokens |-> used[j]],
            last_cleanup |-> current_time,
            removed      |-> expired_tokens]

\* mutant of Rejected: the cache is dropped before the exception is raised
RejectedCleared(detail, used, lc) ==
  [detail |-> detail, used |-> EmptyDict, last_cleanup |-> lc, removed |-> {},
   payload |-> EmptyDict]

\* a validate_jwt call that raises: nothing is written
Rejected(detail, used, lc) ==
  [detail |-> detail, used |-> used, last_cleanup |-> lc, removed |-> {},
   payload |-> EmptyDict]

\* validate_jwt at clock reading t: the outcome and the cache it leaves
validate_jwt(token, used, lc, t, ttl) ==
  LET dec == Decode(token, secret_key, t)
  IN  IF dec.err # "none" THEN Rejected(ErrorDetail(dec.err), used, lc)
      ELSE IF ~HasJti(dec.payload) THEN Rejected(DetailMissingJti, used, lc)
      ELSE IF AlreadyUsed(dec.payload["jti"], used) THEN Rejected(DetailUsed, used, lc)
      ELSE LET marked == MarkUsed(used, dec.payload["jti"], t)
               swept  == cleanup_expired_tokens(marked, lc, t, ttl)
           IN  [detail       |-> "ok",
                used         |-> swept.used,
                last_cleanup |-> swept.last_cleanup,
                removed      |-> swept.removed,
                payload      |-> dec.payload]

\* get_stats()
get_stats ==
  [total_used_tokens    |-> Cardinality(DOMAIN used_tokens),
   last_cleanup         |-> last_cleanup,
   token_expiry_seconds |-> token_expiry_seconds]

\* ---------------------------------------------------------------- actions
\* the clock readings the model distinguishes: the first MaxSecs seconds
\* after construction and after each whole cleanup interval
Instants ==
  {t \in 0..MaxClock :
     t % (cleanup_interval * TicksPerSec) <= MaxSecs * TicksPerSec}

\* the clock advances to the next instant or by a whole cleanup interval
Tick ==
  /\ \E t \in Instants :
       /\ t > now
       /\ \/ t = now + cleanup_interval * TicksPerSec
          \/ \A u \in Instants : u > now => u >= t
       /\ now' = t
  /\ last' = NoCall
  /\ UNCHANGED <<manager, tokens, next_jti, admissions, nremoved, threads,
                 http, issued>>

\* manager.generate_jwt(payload); the clock advances by d between the two
\* reads of datetime.utcnow()
IssueToken(payload, d) ==
  /\ next_jti < MaxTokens
  /\ now + d <= MaxClock
  /\ now' = now + d
  /\ tokens' = tokens \cup
       {generate_jwt(payload, next_jti + 1, now, now + d,
                     token_expiry_seconds, secret_key)}
  /\ next_jti' = next_jti + 1
  /\ issued' =
       [op |-> "issue", arg |-> payload, t1 |-> now, at |-> now + d,
        payload |-> updated_payload(payload, next_jti + 1, now, now + d,
                                    token_expiry_seconds),
        token |-> generate_jwt(payload, next_jti + 1, now, now + d,
                               token_expiry_seconds, secret_key)]
  /\ last' = NoCall
  /\ UNCHANGED <<manager, admissions, nremoved, threads, http>>

Issue == \E payload \in CallerPayloads, d \in {0, 1} : IssueToken(payload, d)

\* tokens that did not come from this manager's generate_jwt: the malformed
\* string, a token issued at construction time by a manager constructed with
\* another secret, and payloads without jti encoded directly under this
\* manager's secret, without an exp claim or with one set at construction time
ForeignTokens ==
  {MalformedToken,
   generate_jwt(EmptyDict, 0, 0, 0, token_expiry_seconds, OtherSecret),
   Encode([data |-> "test"], secret_key),
   Encode([data |-> "test", exp |-> token_expiry_seconds * TicksPerSec],
          secret_key)}

\* manager.validate_jwt(token), the whole call at one clock reading
Admit ==
  /\ \A j \in DOMAIN admissions : admissions[j] <= 1
  /\ \E token \in tokens \cup ForeignTokens :
       LET r == validate_jwt(token, used_tokens, last_cleanup, now,
                             token_expiry_seconds)
           jti == token.payload["jti"]
       IN  /\ used_tokens' = r.used
           /\ last_cleanup' = r.last_cleanup
           /\ last' = [op |-> "admit", token |-> token, detail |-> r.detail,
                       payload |-> r.payload]
           /\ admissions' =
                IF r.detail = "ok"
                THEN Update(admissions,
                            [j \in {jti} |->
                               IF jti \in DOMAIN admissions
                               THEN admissions[jti] + 1 ELSE 1])
                ELSE admissions
           /\ nremoved' = nremoved + Cardinality(r.removed)
  /\ UNCHANGED <<now, token_expiry_seconds, tokens, next_jti, threads, http, issued>>

\* manager._cleanup_expired_tokens() called on its own
Cleanup ==
  /\ LET r == cleanup_expired_tokens(used_tokens, last_cleanup, now,
                                     token_expiry_seconds)
     IN  /\ used_tokens' = r.used
         /\ last_cleanup' = r.last_cleanup
         /\ nremoved' = nremoved + Cardinality(r.removed)
  /\ last' = [NoCall EXCEPT !.op = "cleanup"]
  /\ UNCHANGED <<now, token_expiry_seconds, tokens, next_jti, admissions,
                 threads, http, issued>>

Next == Tick \/ Issue \/ Admit \/ Cleanup

Spec == Init /\ [][Next]_vars

\* a replica, a JWTManager constructed with the same secret_key and its own
\* token_expiry_seconds, generates a token
Mint ==
  /\ next_jti < MaxTokens
  /\ \E replica_expiry_seconds \in TTLs :
       tokens' = tokens \cup
         {generate_jwt(EmptyDict, next_jti + 1, now, now,
                       replica_expiry_seconds, secret_key)}
  /\ next_jti' = next_jti + 1
  /\ last' = NoCall
  /\ issued' = NoIssue
  /\ UNCHANGED <<now, manager, admissions, nremoved, threads, http>>

\* the manager validating tokens that it or a replica generated
ReplicaNext == Tick \/ Issue \/ Mint \/ Admit \/ Cleanup

ReplicaSpec == Init /\ [][ReplicaNext]_vars

\* the keys generate_jwt writes itself
ReservedKeys == {"jti", "iat", "exp"}

\* payloads for the round trip: the ordinary ones, one that uses the
\* reserved keys, and one with an aud field
RoundTripPayloads ==
  CallerPayloads \cup
  {[data |-> "test", jti |-> 0, iat |-> 0, exp |-> 0], [aud |-> "svc"]}

\* issue and admit only: a token is issued for any of the payloads and
\* tokens are presented
RoundTripNext ==
  \/ \E payload \in RoundTripPayloads, d \in {0, 1} : IssueToken(payload, d)
  \/ Admit

RoundTripSpec == Init /\ [][RoundTripNext]_vars

\* ------------------------------------- validate_jwt, statement by statement
\* Several threads call validate_jwt on the shared manager; no lock is
\* held, so the calls interleave between any two statements.

\* thread th ends its call with the given outcome
Done(th, result) ==
  [Idle EXCEPT !.pc = "done", !.token = threads[th].token, !.result = result]

\* a caller enters validate_jwt(token)
ThCall(th) ==
  /\ threads[th].pc = "idle"
  /\ \E token \in tokens :
       threads' = [threads EXCEPT ![th] =
                     [Idle EXCEPT !.pc = "decode", !.token = token]]
  /\ UNCHANGED <<now, manager, tokens, next_jti, last, admissions, nremoved,
                 http, issued>>

\* payload = jwt.decode(...); a decode error leaves through an except clause
ThDecode(th) ==
  /\ threads[th].pc = "decode"
  /\ LET dec == Decode(threads[th].token, secret_key, now)
     IN  threads' = [threads EXCEPT ![th] =
           IF dec.err # "none" THEN Done(th, ErrorDetail(dec.err))
           ELSE [@ EXCEPT !.pc = "check", !.payload = dec.payload]]
  /\ UNCHANGED <<now, manager, tokens, next_jti, last, admissions, nremoved,
                 http, issued>>

\* the jti tests: missing jti, jti in self._used_tokens
ThCheck(th) ==
  /\ threads[th].pc = "check"
  /\ threads' = [threads EXCEPT ![th] =
       IF ~HasJti(@.payload) THEN Done(th, DetailMissingJti)
       ELSE IF AlreadyUsed(@.payload["jti"], used_tokens)
            THEN Done(th, DetailUsed)
       ELSE [@ EXCEPT !.pc = "mark"]]
  /\ UNCHANGED <<now, manager, tokens, next_jti, last, admissions, nremoved,
                 http, issued>>

\* self._used_tokens[jti] = time.time()
ThMark(th) ==
  /\ threads[th].pc = "mark"
  /\ used_tokens' = MarkUsed(used_tokens, threads[th].payload["jti"], now)
  /\ threads' = [threads EXCEPT ![th].pc = "cleanup"]
  /\ UNCHANGED <<now, token_expiry_seconds, last_cleanup, tokens, next_jti,
                 last, admissions, nremoved, http, issued>>

\* the jti of a successful call is counted when the payload is returned
Returned(th) ==
  LET jti == threads[th].payload["jti"]
  IN  Update(admissions,
             [j \in {jti} |->
                IF jti \in DOMAIN admissions THEN admissions[jti] + 1 ELSE 1])

\* _cleanup_expired_tokens: read the clock, test the interval, collect the
\* expired entries; when the sweep is not due the call returns the payload
ThCleanupBegin(th) ==
  /\ threads[th].pc = "cleanup"
  /\ IF ~CleanupDue(now, last_cleanup)
     THEN /\ threads' = [threads EXCEPT ![th] = Done(th, "ok")]
          /\ admissions' = Returned(th)
     ELSE /\ threads' = [threads EXCEPT ![th] =
                 [@ EXCEPT !.pc = "delete", !.current_time = now,
                           !.expired_tokens =
                              ExpiredTokens(used_tokens, now,
                                            token_expiry_seconds)]]
          /\ UNCHANGED admissions
  /\ UNCHANGED <<now, manager, tokens, next_jti, last, nremoved, http, issued>>

\* one round of the loop `for jti in expired_tokens: del ...`; deleting a
\* key that is no longer there raises KeyError, which no clause catches
ThDelete(th) ==
  /\ threads[th].pc = "delete"
  /\ threads[th].expired_tokens # {}
  /\ LET jti == CHOOSE j \in threads[th].expired_tokens :
                  \A k \in threads[th].expired_tokens : j <= k
     IN  IF jti \in DOMAIN used_tokens
         THEN /\ used_tokens' =
                   [j \in (DOMAIN used_tokens) \ {jti} |-> used_tokens[j]]
              /\ nremoved' = nremoved + 1
              /\ threads' = [threads EXCEPT ![th].expired_tokens = @ \ {jti}]
         ELSE /\ threads' = [threads EXCEPT ![th] = Done(th, "KeyError")]
              /\ UNCHANGED <<used_tokens, nremoved>>
  /\ UNCHANGED <<now, token_expiry_seconds, last_cleanup, tokens, next_jti,
                 last, admissions, http, issued>>

\* self._last_cleanup = current_time; validate_jwt returns the payload
ThCleanupEnd(th) ==
  /\ threads[th].pc = "delete"
  /\ threads[th].expired_tokens = {}
  /\ last_cleanup' = threads[th].current_time
  /\ admissions' = Returned(th)
  /\ threads' = [threads EXCEPT ![th] = Done(th, "ok")]
  /\ UNCHANGED <<now, token_expiry_seconds, used_tokens, tokens, next_jti,
                 last, nremoved, http, issued>>

ConcNext ==
  \/ Tick
  \/ IssueToken(EmptyDict, 0)
  \/ \E th \in Threads :
       \/ ThCall(th)
       \/ ThDecode(th)
       \/ ThCheck(th)
       \/ ThMark(th)
       \/ ThCleanupBegin(th)
       \/ ThDelete(th)
       \/ ThCleanupEnd(th)

ConcSpec == Init /\ [][ConcNext]_vars

\* ------------------------------------------------------------ HTTP layer
VALID_API_KEY == "2f5ae96c-b558-4c7b-a590-a501ae1c3f6c"

\* a header that was not sent (None)
NoHeader == [present |-> FALSE, value |-> ""]

\* values of the X-Parse-REST-API-Key header
ApiKeys ==
  {NoHeader,
   [present |-> TRUE, value |-> VALID_API_KEY],
   [present |-> TRUE, value |-> "invalid-key-12345"]}

\* a JWT header that was not sent, or one carrying an encoded token
NoJwtHeader == [present |-> FALSE, value |-> MalformedToken]
JwtHeaders ==
  {NoJwtHeader} \cup
  {[present |-> TRUE, value |-> t] : t \in tokens \cup {MalformedToken}}

\* request bodies: the valid example and one with timeToLifeSec = -1
VALID_PAYLOAD ==
  [message |-> "This is a test", to |-> "Juan Perez", from |-> "Rita Asturia",
   timeToLifeSec |-> 45]
Bodies == {VALID_PAYLOAD, [VALID_PAYLOAD EXCEPT !.timeToLifeSec = 0 - 1]}

\* DevOpsRequest: min_length=1 on the strings, gt=0 on timeToLifeSec
SchemaValid(body) ==
  /\ body.message # ""
  /\ body.to # ""
  /\ body.from # ""
  /\ body.timeToLifeSec > 0

\* mutant: the JWT header is not required
validate_security_headers_KeyOnly(api_key, jwt_token) ==
  IF ~api_key.present \/ api_key.value = "" \/ api_key.value # VALID_API_KEY
  THEN [status |-> 401, detail |-> "Invalid API Key"]
  ELSE [status |-> 200, detail |-> "ok"]

\* validate_security_headers: the HTTPException it raises, or "ok"
validate_security_headers(api_key, jwt_token) ==
  IF ~api_key.present \/ api_key.value = "" \/ api_key.value # VALID_API_KEY
  THEN [status |-> 401, detail |-> "Invalid API Key"]
  ELSE IF ~jwt_token.present
  THEN [status |-> 401, detail |-> "Missing JWT token"]
  ELSE [status |-> 200, detail |-> "ok"]

build_success_message(recipient_name) ==
  "Hello " \o recipient_name \o " your message will be send"

\* POST /DevOps: the body is validated against DevOpsRequest before the
\* handler runs; the handler validates the headers and builds the response
devops_endpoint(body, api_key, jwt_token) ==
  IF ~SchemaValid(body) THEN [status |-> 422, detail |-> "validation error"]
  ELSE LET sec == validate_security_headers(api_key, jwt_token)
       IN  IF sec.status # 200 THEN sec
           ELSE [status |-> 200, detail |-> build_success_message(body.to)]

\* the methods and paths clients use; catch_all is registered for
\* CatchAllMethods on every path
Methods == {"GET", "POST", "PUT"}
Paths == {"/health", "/DevOps", "/api/generate-token"}
CatchAllMethods == {"GET", "PUT", "DELETE", "PATCH", "HEAD", "OPTIONS"}

\* a request that carries no JSON body
NoBody == [message |-> "", to |-> "", from |-> "", timeToLifeSec |-> 0]

health_check == [status |-> 200, detail |-> "healthy"]

catch_all == [status |-> 400, detail |-> "ERROR"]

\* the application's routes in the order they are registered: the first
\* route matching path and method answers; when only catch_all's path
\* matches (it matches every path) the method is refused with 405
app(method, path, body, api_key, jwt_token) ==
  IF method = "GET" /\ path = "/health" THEN health_check
  ELSE IF method = "POST" /\ path = "/DevOps"
  THEN devops_endpoint(body, api_key, jwt_token)
  ELSE IF method \in CatchAllMethods THEN catch_all
  ELSE [status |-> 405, detail |-> "Method Not Allowed"]

\* a client posts to /DevOps and is answered
PostDevOps ==
  /\ Len(http) < MaxRequests
  /\ \E body \in Bodies, api_key \in ApiKeys, jwt_token \in JwtHeaders :
       http' = Append(http,
                      [method |-> "POST", path |-> "/DevOps",
                       body |-> body, api_key |-> api_key,
                       jwt_token |-> jwt_token,
                       response |-> app("POST", "/DevOps", body, api_key,
                                        jwt_token)])
  /\ UNCHANGED <<now, manager, tokens, next_jti, last, admissions, nremoved,
                 threads, issued>>

\* a client sends any other request, without body or JWT header
OtherRequest ==
  /\ Len(http) < MaxRequests
  /\ \E method \in Methods, path \in Paths, api_key \in ApiKeys :
       /\ ~(method = "POST" /\ path = "/DevOps")
       /\ http' = Append(http,
                         [method |-> method, path |-> path,
                          body |-> NoBody, api_key |-> api_key,
                          jwt_token |-> NoJwtHeader,
                          response |-> app(method, path, NoBody, api_key,
                                           NoJwtHeader)])
  /\ UNCHANGED <<now, manager, tokens, next_jti, last, admissions, nremoved,
                 threads, issued>>

\* the HTTP service: tokens are issued and requests are answered
HttpNext == Issue \/ PostDevOps \/ OtherRequest

HttpSpec == Init /\ [][HttpNext]_vars

\* ------------------------------------------------- vocabulary of the claims
\* the token's signature verifies under the manager's secret
SignatureVerifies(token) ==
  token.wellformed /\ token.sig = [msg |-> token.payload, key |-> secret_key]

\* t >= expires_at, read off the token's exp claim (seconds); a token
\* without an exp claim has no expiry
ExpiredAt(token, t) ==
  "exp" \in DOMAIN token.payload /\ t >= token.payload["exp"] * TicksPerSec

CarriesId(token) == "jti" \in DOMAIN token.payload

\* this step is a validate_jwt call
AdmitStep == last'.op = "admit"

\* age of the record of jti at clock reading t, in ticks
Age(jti, t) == t - used_tokens[jti]

TtlTicks == token_expiry_seconds * TicksPerSec
IntervalTicks == cleanup_interval * TicksPerSec

RECURSIVE SumOver(_, _)
SumOver(f, S) ==
  IF S = {} THEN 0
  ELSE LET x == CHOOSE y \in S : TRUE IN f[x] + SumOver(f, S \ {x})

\* number of successful validate_jwt calls so far
SuccessfulAdmissions == SumOver(admissions, DOMAIN admissions)

\* C1: each token id has been admitted successfully at most once, whatever
\* issues, admissions, clock advances and cleanups came before
C1_AtMostOnce == \A j \in DOMAIN admissions : admissions[j] <= 1

\* C1 witness: a token that was admitted and whose record has been evicted
\* is presented again and rejected
C1_Witness ==
  /\ last.op = "admit"
  /\ CarriesId(last.token)
  /\ last.token.payload["jti"] \in DOMAIN admissions
  /\ last.token.payload["jti"] \notin DOMAIN used_tokens
  /\ last.detail # "ok"

\* C3: a validate_jwt of the same encoded token right after a successful
\* one is rejected as already used
C3_SecondAdmitAlreadyUsed ==
  [][(last.op = "admit" /\ last.detail = "ok" /\ AdmitStep
        /\ last'.token = last.token)
     => Kind(last'.detail) = "TokenAlreadyUsed"]_vars

\* C3 witness: a token consumed at this very instant has just been
\* presented again and rejected as already used
C3_Witness ==
  /\ last.op = "admit"
  /\ last.detail = DetailUsed
  /\ used_tokens[last.token.payload["jti"]] = now

C6_ExpiredRejected ==
  [][(AdmitStep /\ SignatureVerifies(last'.token)
        /\ ExpiredAt(last'.token, now))
     => Kind(last'.detail) = "TokenExpired"]_vars

\* C6 witness: a token whose record is still in the cache is rejected as
\* expired
C6_Witness ==
  /\ last.op = "admit"
  /\ last.detail = DetailExpired
  /\ CarriesId(last.token)
  /\ last.token.payload["jti"] \in DOMAIN used_tokens

\* C7: malformed tokens, tokens whose signature does not verify and signed
\* unexpired tokens without id are rejected as invalid
C7_InvalidRejected ==
  [][(AdmitStep /\ (\/ ~last'.token.wellformed
                    \/ ~SignatureVerifies(last'.token)
                    \/ (/\ SignatureVerifies(last'.token)
                        /\ ~ExpiredAt(last'.token, now)
                        /\ ~CarriesId(last'.token))))
     => Kind(last'.detail) = "InvalidToken"]_vars

\* C7 witness: a well-formed token signed with another secret has just been
\* rejected
C7_Witness ==
  /\ last.op = "admit"
  /\ last.token.wellformed
  /\ last.token.sig.key = OtherSecret
  /\ Kind(last.detail) = "InvalidToken"

\* the records older than ttl at the current clock reading
Stale == {j \in DOMAIN used_tokens : Age(j, now) > TtlTicks}

\* C8 as stated: once a cleanup interval has elapsed, any validate_jwt call
\* removes the stale records and the count drops by their number
C8_Original ==
  [][(AdmitStep /\ now - last_cleanup >= IntervalTicks /\ Stale # {})
     => /\ Stale \cap DOMAIN used_tokens' = {}
        /\ Cardinality(DOMAIN used_tokens')
             = Cardinality(DOMAIN used_tokens) - Cardinality(Stale)]_vars

\* C8 amended: once a cleanup interval has elapsed, a successful
\* validate_jwt call removes the stale records, and the count afterwards is
\* the count before, plus one for the token admitted, minus their number
C8_SweepOnSuccess ==
  [][(AdmitStep /\ last'.detail = "ok"
        /\ now - last_cleanup >= IntervalTicks /\ Stale # {})
     => /\ Stale \cap DOMAIN used_tokens' = {}
        /\ Cardinality(DOMAIN used_tokens')
             = Cardinality(DOMAIN used_tokens) + 1 - Cardinality(Stale)]_vars

\* C8 witness: a successful validate_jwt has just run the sweep and the
\* sweep has removed a record
C8_Witness ==
  /\ last.op = "admit"
  /\ last.detail = "ok"
  /\ last_cleanup = now
  /\ nremoved > 0

\* C9: a record leaves the cache only in a sweep and only when older than
\* ttl; no step replaces a record
C9_OnlySweepRemoves ==
  [][\A j \in DOMAIN used_tokens :
       \/ j \in DOMAIN used_tokens' /\ used_tokens'[j] = used_tokens[j]
       \/ /\ last_cleanup' = now /\ last_cleanup' # last_cleanup
          /\ now - last_cleanup >= IntervalTicks
          /\ Age(j, now) > TtlTicks]_vars

\* C9 witness: a sweep has just run, it or an earlier one removed a record,
\* and a record is still in the cache
C9_Witness ==
  /\ last_cleanup = now
  /\ last_cleanup > 0
  /\ nremoved > 0
  /\ DOMAIN used_tokens # {}

\* C10: the used count is the number of successful admissions minus the
\* number of records removed by sweeps
C10_UsedCount ==
  get_stats.total_used_tokens = SuccessfulAdmissions - nremoved

\* C10 witness: two tokens admitted, nothing removed, count two
C10_Witness ==
  /\ SuccessfulAdmissions = 2
  /\ nremoved = 0
  /\ get_stats.total_used_tokens = 2

\* C4: of two consecutive POST /DevOps requests with the valid API key, a
\* schema-valid body and the same issued JWT, the first is answered 200 and
\* the second 401 "already used"
C4_SecondPostRejected ==
  \A i \in 1..(Len(http) - 1) :
    (/\ http[i].method = "POST" /\ http[i].path = "/DevOps"
     /\ http[i + 1].method = "POST" /\ http[i + 1].path = "/DevOps"
     /\ SchemaValid(http[i].body) /\ SchemaValid(http[i + 1].body)
     /\ http[i].api_key.value = VALID_API_KEY
     /\ http[i + 1].api_key.value = VALID_API_KEY
     /\ http[i].jwt_token.present
     /\ http[i].jwt_token.value \in tokens
     /\ http[i + 1].jwt_token = http[i].jwt_token)
    => /\ http[i].response.status = 200
       /\ http[i + 1].response.status = 401
       /\ http[i + 1].response.detail = DetailUsed

\* the threads that have called validate_jwt with the token
Callers(token) ==
  {th \in Threads : threads[th].pc # "idle" /\ threads[th].token = token}

\* C2: of the concurrent validate_jwt calls presenting the same valid,
\* unexpired, not yet consumed token, no two succeed, and once all have
\* ended exactly one has succeeded and the others were rejected as already
\* used
C2_ExactlyOneWinner ==
  \A token \in tokens :
    LET winners == {th \in Callers(token) : threads[th].result = "ok"}
    IN  /\ Cardinality(winners) <= 1
        /\ (/\ Cardinality(Callers(token)) >= 2
            /\ \A th \in Callers(token) :
                 /\ threads[th].pc = "done"
                 /\ threads[th].result \notin {DetailExpired, DetailInvalid})
           => /\ Cardinality(winners) = 1
              /\ \A th \in Callers(token) \ winners :
                   threads[th].result = DetailUsed

\* this step presents the token generate_jwt has just returned, for the
\* first time and at the clock reading of its return
AdmitsIssued ==
  /\ AdmitStep
  /\ issued.op = "issue"
  /\ last'.token = issued.token
  /\ now = issued.at
  /\ issued.token.payload["jti"] \notin DOMAIN used_tokens

\* C11: validate_jwt(generate_jwt(P)) made at once succeeds for every
\* payload P and returns P's fields together with the generated jti, iat
\* and exp, the generated values standing where P used a reserved key
C11_RoundTrip ==
  [][AdmitsIssued =>
       /\ last'.detail = "ok"
       /\ \A k \in (DOMAIN issued.arg) \ ReservedKeys :
            k \in DOMAIN last'.payload /\ last'.payload[k] = issued.arg[k]
       /\ ReservedKeys \subseteq DOMAIN last'.payload
       /\ last'.payload["jti"] = next_jti
       /\ last'.payload["iat"] = issued.t1 \div TicksPerSec
       /\ last'.payload["exp"] >= last'.payload["iat"] + token_expiry_seconds]_vars

\* C12: every token generate_jwt has produced carries exp - iat equal to
\* the configured expiry time, whenever the call was made
C12_ExpMinusIat ==
  \A token \in tokens :
    token.payload["exp"] - token.payload["iat"] = token_expiry_seconds

\* the logged requests that are POST /DevOps with a schema-valid body
DevOpsPosts ==
  {i \in 1..Len(http) :
     http[i].method = "POST" /\ http[i].path = "/DevOps"
     /\ SchemaValid(http[i].body)}

KeyValid(req) == req.api_key.present /\ req.api_key.value = VALID_API_KEY

C14_GenerateTokenGuarded ==
  \A i \in 1..Len(http) :
    (http[i].method = "POST" /\ http[i].path = "/api/generate-token")
    => http[i].response.status = (IF KeyValid(http[i]) THEN 200 ELSE 401)

\* the id of the token is in the cache
IdUsed(token) ==
  CarriesId(token) /\ token.payload["jti"] \in DOMAIN used_tokens

\* C15: validate_jwt reports the first failing check in the order
\* signature, expiry, id presence, uniqueness: an expired token whose
\* signature does not verify is rejected as invalid; a signed expired token
\* is rejected as expired when its id is missing or in the cache; a signed
\* unexpired token without id is rejected as invalid and the cache is left
\* as it was
C15_CheckOrder ==
  [][AdmitStep =>
       /\ (~SignatureVerifies(last'.token) /\ ExpiredAt(last'.token, now))
            => Kind(last'.detail) = "InvalidToken"
       /\ (/\ SignatureVerifies(last'.token)
           /\ ExpiredAt(last'.token, now)
           /\ (~CarriesId(last'.token) \/ IdUsed(last'.token)))
            => Kind(last'.detail) = "TokenExpired"
       /\ (/\ SignatureVerifies(last'.token)
           /\ ~ExpiredAt(last'.token, now)
           /\ ~CarriesId(last'.token))
            => (Kind(last'.detail) = "InvalidToken"
                /\ used_tokens' = used_tokens)]_vars

\* C15 witness: a token signed with another secret and past its exp has
\* just been rejected as invalid, with a record in the cache
C15_Witness ==
  /\ last.op = "admit"
  /\ last.token.wellformed
  /\ ~SignatureVerifies(last.token)
  /\ ExpiredAt(last.token, now)
  /\ Kind(last.detail) = "InvalidToken"
  /\ used_tokens # EmptyDict

\* C16: a validate_jwt call that is rejected, for whatever reason, leaves
\* the cache and the time of the last sweep as they were
C16_RejectedUnchanged ==
  [][(AdmitStep /\ last'.detail # "ok")
     => (used_tokens' = used_tokens /\ last_cleanup' = last_cleanup)]_vars

\* C16 witness: a call has just been rejected at a moment when a sweep is
\* due and would remove a record
C16_Witness ==
  /\ last.op = "admit"
  /\ last.detail # "ok"
  /\ CleanupDue(now, last_cleanup)
  /\ Stale # {}

\* C17: a token whose signature verifies and whose id was recorded and has
\* been removed from the cache is past its exp, from the removal on
C17_EvictedExpired ==
  \A token \in tokens :
    (/\ SignatureVerifies(token)
     /\ CarriesId(token)
     /\ token.payload["jti"] \in DOMAIN admissions
     /\ token.payload["jti"] \notin DOMAIN used_tokens)
    => ExpiredAt(token, now)

\* validate_jwt(token) would succeed with the cache as used at clock t
Accepts(token, used, lc, t) ==
  validate_jwt(token, used, lc, t, token_expiry_seconds).detail = "ok"

\* C18: a token that validate_jwt rejects is rejected by every later call
\* on the same manager, whatever happened in between; a rejected call
\* changes nothing, so this is said of each step: a token that would be
\* rejected before the step would be rejected after it
C18_RejectedStaysRejected ==
  [][\A token \in tokens \cup ForeignTokens :
       ~Accepts(token, used_tokens, last_cleanup, now)
       => ~Accepts(token, used_tokens', last_cleanup', now')]_vars

\* the call of thread th is in the middle of a sweep: it has collected the
\* expired entries and has not yet recorded the time of the sweep
InSweep(th) == threads[th].pc = "delete"

\* C19: while one validate_jwt call is in the middle of a sweep, no other
\* call inserts into the cache or deletes from it
C19_SweepExclusive ==
  [][\A th \in Threads :
       (InSweep(th) /\ threads'[th] = threads[th])
       => used_tokens' = used_tokens]_vars

\* the call of thread th has executed the insertion at line 94
Inserted(th) == threads[th].pc \in {"cleanup", "delete"}

\* C20: a validate_jwt call that has inserted its jti ends by returning the
\* payload; none ends with the KeyError of a deletion in its sweep
C20_InsertedReturns ==
  [][\A th \in Threads :
       (Inserted(th) /\ threads'[th].pc = "done")
       => threads'[th].result = "ok"]_vars

\* this step calls _cleanup_expired_tokens: on its own, or at the end of a
\* successful validate_jwt
SweepCalled == last'.op = "cleanup" \/ (AdmitStep /\ last'.detail = "ok")

\* C21: a call of _cleanup_expired_tokens made less than cleanup_interval
\* after the last sweep, or after construction, removes no entry and leaves
\* the time of the last sweep as it was, however old the entries are
C21_NoSweepBeforeInterval ==
  [][(SweepCalled /\ now - last_cleanup < IntervalTicks)
     => /\ last_cleanup' = last_cleanup
        /\ \A j \in DOMAIN used_tokens :
             j \in DOMAIN used_tokens' /\ used_tokens'[j] = used_tokens[j]]_vars

\* C21 witness: _cleanup_expired_tokens has just been called on a manager
\* that has not swept since construction, less than cleanup_interval after
\* it, with an entry older than ttl in the cache
C21_Witness ==
  /\ last.op = "cleanup"
  /\ last_cleanup = 0
  /\ now < IntervalTicks
  /\ Stale # {}

\* C22: a call of _cleanup_expired_tokens made cleanup_interval or more
\* after the last sweep leaves exactly the prior entries recorded at or
\* after now - ttl, each with its time, removes every older one, and sets
\* the time of the last sweep to now, also when it removed nothing; at the
\* end of a validate_jwt the only other entry is the one just inserted
C22_SweepExact ==
  [][(SweepCalled /\ now - last_cleanup >= IntervalTicks)
     => /\ last_cleanup' = now
        /\ \A j \in DOMAIN used_tokens :
             /\ j \in DOMAIN used_tokens' <=> used_tokens[j] >= now - TtlTicks
             /\ j \in DOMAIN used_tokens' => used_tokens'[j] = used_tokens[j]
        /\ \A j \in (DOMAIN used_tokens') \ DOMAIN used_tokens :
             /\ AdmitStep
             /\ j = last'.token.payload["jti"]
             /\ used_tokens'[j] = now]_vars

\* C22 witness: a sweep, run at the end of a validate_jwt, has removed an
\* entry older than ttl and kept the one recorded now
C22_Witness ==
  /\ last.op = "admit"
  /\ last.detail = "ok"
  /\ last_cleanup = now
  /\ now >= IntervalTicks
  /\ nremoved > 0
  /\ \E j \in DOMAIN used_tokens : used_tokens[j] = now

\* this step is a generate_jwt call
IssueStep == issued'.op = "issue" /\ next_jti' = next_jti + 1

\* C23: generate_jwt changes neither the cache nor the time of the last
\* sweep nor the payload dict its caller passed
C23_IssuePure ==
  [][IssueStep
     => /\ used_tokens' = used_tokens
        /\ last_cleanup' = last_cleanup
        /\ issued'.payload = issued'.arg]_vars

====
